---- MODULE Spec2Model ----
(***************************************************************************)
(* The release orchestrator of scripts/release.sh: the persisted state     *)
(* store (.release-state), the lock file (.release-lock), the step         *)
(* pipeline with its verification predicates, resume / --step / --from /   *)
(* --rollback / --status dispatch, and the external systems the steps act  *)
(* on (working tree, registry, remote, release host).                      *)
(*                                                                         *)
(* Every run of the script is one process.  bash runs with `set -e`, no    *)
(* errtrace: a command failing inside a function ends the shell at once,   *)
(* the ERR trap (top level only) does not run, the EXIT trap does.         *)
(***************************************************************************)
EXTENDS Integers, Sequences, FiniteSets, TLC

(***************************************************************************)
(* Bounds of the model.                                                    *)
(***************************************************************************)
\* number of runs of the script (each run is one process, its id is its pid)
NProcs == 2
\* number of manual interventions undoing an external effect
MaxDrift == 1

Procs == 1..NProcs
\* the content of a lock file that does not exist
NoPid == 0

(***************************************************************************)
(* Step order (STEPS array).                                               *)
(***************************************************************************)
STEPS ==
  << "preflight", "init", "show_commits", "create_changeset", "edit_changeset",
     "build", "version", "git_commit", "npm_publish", "git_push", "gh_release",
     "cleanup" >>

NSteps == Len(STEPS)

\* the names given to --step and to --from: names of STEPS, and one that is
\* not in STEPS
StepNames == { "preflight", "build", "version", "git_push", "gh_release",
               "cleanup", "deploy" }
FromNames == { "preflight", "build", "npm_publish", "deploy" }

\* a lookup that answers 0 for a name that is not in STEPS
get_step_index_or_first(step) ==
  IF \E i \in 1..NSteps : STEPS[i] = step
    THEN (CHOOSE i \in 1..NSteps : STEPS[i] = step) - 1
    ELSE 0

\* get_step_index: the 0-based position of step in STEPS, -1 when absent
get_step_index(step) ==
  IF \E i \in 1..NSteps : STEPS[i] = step
    THEN (CHOOSE i \in 1..NSteps : STEPS[i] = step) - 1
    ELSE -1

\* the elements of a list
Names(seq) == { seq[i] : i \in DOMAIN seq }

\* "${STEPS[$i]}" for a 0-based index
StepAt(i) == STEPS[i + 1]

(***************************************************************************)
(* Values of the external world.                                           *)
(***************************************************************************)
\* package.json versions: each `changeset version` moves to the next one
VerStr == << "1.0.0", "1.0.1", "1.0.2", "1.0.3", "1.0.4", "1.0.5" >>
\* placeholder written by step_version under --dry-run
DryVersion == "X.X.X"
\* commit hashes: the hash of the commit with k release commits under it
CommitStr == << "c0", "c1", "c2", "c3", "c4", "c5" >>
\* random_string: one changeset file name per run
PathStr == << ".changeset/a.md", ".changeset/b.md", ".changeset/c.md",
              ".changeset/d.md" >>

get_pkg_version(e) == VerStr[e.pkgVersion]
get_current_commit(e) == CommitStr[Len(e.head) + 1]
get_last_tag(e) == e.lastTag
\* repository.url of package.json as owner/name, "" when there is none
get_repo(e) == e.repo
TagOf(version) == "v" \o version

\* A commit subject is the sequence of its pieces; grep -i compares them
\* without regard to case.  "[box] NEW" stands for the package emoji, a
\* space and NEW
Lower(piece) ==
  CASE piece = "FEAT" -> "feat"
    [] piece = "[box] NEW" -> "[box] new"
    [] piece = "Breaking Change" -> "breaking change"
    [] piece = "BREAKING CHANGE" -> "breaking change"
    [] OTHER -> piece

\* .*!: an exclamation mark directly followed by a colon, anywhere
BangColon(subject) ==
  \E i \in 1..(Len(subject) - 1) : subject[i] = "!" /\ subject[i + 1] = ":"

\* grep -qiE "^(BREAKING CHANGE|.*!:)" on one line
BreakingMarker(subject) ==
  \/ subject # << >> /\ Lower(subject[1]) = "breaking change"
  \/ BangColon(subject)

\* grep -qiE "^(feat|feature|[box] NEW)" on one line
FeatureMarker(subject) ==
  subject # << >> /\ Lower(subject[1]) \in { "feat", "feature", "[box] new" }

\* whether a line matches the pattern of the first or of the second grep
Matches(line, pattern) ==
  IF pattern = "breaking" THEN BreakingMarker(line) ELSE FeatureMarker(line)

\* echo "$commits" | grep -q: the lines are read in turn, and the status is
\* 0 at the first that matches, 1 when none does
RECURSIVE grep_q(_, _)
grep_q(lines, pattern) ==
  IF lines = << >> THEN 1
  ELSE IF Matches(Head(lines), pattern) THEN 0
  ELSE grep_q(Tail(lines), pattern)

\* a classifier that looks for features before breaking changes
detect_bump_type_feat_first(commits) ==
  IF grep_q(commits, "feature") = 0 THEN "minor"
  ELSE IF grep_q(commits, "breaking") = 0 THEN "major"
  ELSE "patch"

\* detect_bump_type: the subjects of `git log` (since the tag, or the last
\* twenty) are searched first for a breaking change, then for a feature
detect_bump_type(commits) ==
  IF grep_q(commits, "breaking") = 0 THEN "major"
  ELSE IF grep_q(commits, "feature") = 0 THEN "minor"
  ELSE "patch"

\* .releaserc: absent, or its bump: and edit: values ("" when there is no
\* such line)
NoConfig == [ exists |-> FALSE, bump |-> "", edit |-> "" ]

\* load_config, called after the arguments are parsed: a bump: value
\* replaces BUMP_TYPE; the function's status is that of its last command,
\* [ "$val" = "false" ] && EDIT_CHANGELOG=false
load_config(a, config) ==
  IF ~ config.exists
    THEN [ a |-> a, status |-> 0 ]
    ELSE [ a |-> [a EXCEPT !.bump = IF config.bump # "" THEN config.bump ELSE @,
                           !.edit = IF config.edit = "false" THEN FALSE ELSE @],
           status |-> IF config.edit = "false" THEN 0 ELSE 1 ]

(***************************************************************************)
(* STATE MANAGEMENT.  The state file is absent, or a sequence of           *)
(* key:value lines.  The value of completed_steps is the comma-separated   *)
(* list of step names, kept as a sequence of names.                        *)
(***************************************************************************)
NoState == [ exists |-> FALSE, lines |-> << >> ]

\* what `get_state` prints for a key with no line: the empty string
EmptyValue(key) == IF key = "completed_steps" THEN << >> ELSE ""

\* save_state: grep -v "^key:" into a temporary file, mv it back, append key:value
save_state(sf, key, value) ==
  LET Other(l) == l[1] # key
      kept == IF sf.exists THEN SelectSeq(sf.lines, Other) ELSE << >>
  IN  [ exists |-> TRUE, lines |-> Append(kept, << key, value >>) ]

\* get_state: grep "^key:" | cut -d: -f2-  (the first matching line; save_state
\* leaves at most one), the empty string when the file or the line is missing
get_state(sf, key) ==
  LET Mine(l) == l[1] = key
      found == SelectSeq(sf.lines, Mine)
  IN  IF found = << >> THEN EmptyValue(key) ELSE found[1][2]

clear_state(sf) == NoState

has_state(sf) == sf.exists

\* a test that takes every step for done, so that verification alone decides
is_step_done_always(sf, step) == TRUE

\* is_step_done: ",$done_steps," contains ",$step,"
is_step_done(sf, step) ==
  LET done_steps == get_state(sf, "completed_steps")
  IN  \E i \in DOMAIN done_steps : done_steps[i] = step

\* mark_step_done without its last line: last_step is left alone
mark_step_done_no_last(sf, step) ==
  LET done_steps == get_state(sf, "completed_steps")
  IN  save_state(sf, "completed_steps", Append(done_steps, step))

\* mark_step_done: append to completed_steps, then set last_step
mark_step_done(sf, step) ==
  LET done_steps == get_state(sf, "completed_steps")
      sf1 == IF done_steps = << >>
               THEN save_state(sf, "completed_steps", << step >>)
               ELSE save_state(sf, "completed_steps", Append(done_steps, step))
  IN  save_state(sf1, "last_step", step)

(***************************************************************************)
(* The same functions on the text of the file.  A line is the sequence of  *)
(* its characters; a key or a value is a sequence of characters too.       *)
(***************************************************************************)
MaxValueLen == 2
\* keys of which one is the end, and one the beginning, of another
TextKeys == { << "a" >>, << "t" >>, << "a", "t" >> }
TextChars == { "x", ":" }
RECURSIVE Strings(_)
Strings(n) ==
  IF n = 0 THEN { << >> }
  ELSE Strings(n - 1) \cup { Append(v, c) : v \in Strings(n - 1), c \in TextChars }
TextValues == Strings(MaxValueLen)

NoText == [ exists |-> FALSE, lines |-> << >> ]

\* grep "^$key:": the line begins with the key and a colon
grep_key(line, key) ==
  LET pattern == Append(key, ":")
  IN  Len(line) >= Len(pattern) /\ SubSeq(line, 1, Len(pattern)) = pattern

\* the position of the first colon of a line, 0 when it has none
RECURSIVE FirstColon(_, _)
FirstColon(line, i) ==
  IF i > Len(line) THEN 0
  ELSE IF line[i] = ":" THEN i ELSE FirstColon(line, i + 1)

\* cut -d: -f2 (the second field alone)
cut_f2(line) ==
  LET c == FirstColon(line, 1)
      rest == SubSeq(line, c + 1, Len(line))
      d == FirstColon(rest, 1)
  IN  IF c = 0 THEN line
      ELSE IF d = 0 THEN rest ELSE SubSeq(rest, 1, d - 1)

\* cut -d: -f2-: all that follows the first colon; a line without a colon
\* is printed whole
cut(line) ==
  LET c == FirstColon(line, 1)
  IN  IF c = 0 THEN line ELSE SubSeq(line, c + 1, Len(line))

\* the output of a pipeline captured by $( ): its lines joined by newlines
RECURSIVE Captured(_)
Captured(lines) ==
  IF lines = << >> THEN << >>
  ELSE IF Len(lines) = 1 THEN lines[1]
  ELSE lines[1] \o << "\n" >> \o Captured(Tail(lines))

\* save_state on the text: the lines that do not match ^key: are kept, and
\* the line key:value is appended
save_state_text(file, key, value) ==
  LET Other(l) == ~ grep_key(l, key)
      kept == IF file.exists THEN SelectSeq(file.lines, Other) ELSE << >>
  IN  [ exists |-> TRUE, lines |-> Append(kept, Append(key, ":") \o value) ]

\* get_state on the text: grep "^key:" | cut -d: -f2-, nothing when the file
\* is missing
get_state_text(file, key) ==
  LET Mine(l) == grep_key(l, key)
      found == IF file.exists THEN SelectSeq(file.lines, Mine) ELSE << >>
  IN  Captured([ i \in DOMAIN found |-> cut(found[i]) ])

(***************************************************************************)
(* VERIFICATION FUNCTIONS: sf is the state file, e the external world.     *)
(***************************************************************************)
verify_preflight(sf, e) == TRUE
verify_init(sf, e) == get_state(sf, "original_commit") # ""
verify_show_commits(sf, e) ==
  get_state(sf, "last_tag") # "" \/ get_state(sf, "no_previous_tag") = "true"
verify_create_changeset(sf, e) ==
  LET f == get_state(sf, "changeset_file") IN f # "" /\ f \in e.csFiles
verify_edit_changeset(sf, e) == TRUE
verify_build(sf, e) == e.dist
\* CHANGELOG.md exists and mentions the version of package.json
verify_version(sf, e) == e.changelog
\* the message of HEAD contains "RELEASE: v$version"
verify_git_commit(sf, e) ==
  LET v == get_state(sf, "version")
  IN  v # "" /\ e.head # << >> /\ e.head[Len(e.head)].msg = v
\* npm view "$p@$v" version | grep -q "$v": with an empty version the query is for
\* the package itself and the empty pattern matches any answer
verify_npm_publish(sf, e) ==
  LET v == get_state(sf, "version")
  IN  IF v = "" THEN e.npm # {} ELSE v \in e.npm
\* git ls-remote --tags origin | grep -q "refs/tags/$t"
verify_git_push(sf, e) ==
  LET t == get_state(sf, "tag")
  IN  IF t = "" THEN e.remoteTags # {} ELSE t \in e.remoteTags
\* gh release view "$t": with an empty tag the latest release is looked up
verify_gh_release(sf, e) ==
  LET t == get_state(sf, "tag")
  IN  IF t = "" THEN e.ghReleases # {} ELSE t \in e.ghReleases
verify_cleanup(sf, e) == ~ has_state(sf)

(***************************************************************************)
(* STEP FUNCTIONS.  a is the run's configuration (DRY_RUN, YES,            *)
(* EDIT_CHANGELOG, BUMP_TYPE, the run's random file name), sf the state    *)
(* file, e the external world.  A step yields the set of its possible      *)
(* outcomes: the new state file and world, the external mutating commands  *)
(* it ran (act), and how it ended:                                         *)
(*   "skip"  log_skip and return 0                                         *)
(*   "ok"    return 0 after running                                        *)
(*   "exit"  the shell exits 1 inside the step (exit 1, or set -e on a     *)
(*           failing command)                                              *)
(*   "died"  a signal ends the shell after the external command returned   *)
(*           and before mark_step_done                                     *)
(* External commands are black boxes: each can fail without effect.        *)
(***************************************************************************)
Out(sf, e, res, act) ==
  [ sf |-> sf, ext |-> e, res |-> res, act |-> act, msg |-> "", reply |-> "",
    fatal |-> {}, checked |-> << >>, detected |-> "", changeset |-> "",
    host |-> {} ]

\* an external command cmd with effect e1 on the world, then `mark`
\* applied to the state file
External(sf, e, e1, cmd, marked) ==
  { Out(sf, e, "exit", {}),
    Out(marked, e1, "ok", {cmd}),
    Out(sf, e1, "died", {cmd}) }

\* the fatal checks of step_preflight, in the order they are made
FatalChecks ==
  << "package.json", "package name", "npm login", "uncommitted", "no commits" >>

\* ((errors++)): the variable after it, and its exit status, which is 1 when
\* the value of the expression (the variable before it) is 0
PostIncrement(errors) ==
  [ errors |-> errors + 1, status |-> IF errors = 0 THEN 1 ELSE 0 ]

\* the checks from the i-th on, with `failing` the conditions that are unmet:
\* the errors counted, the checks evaluated, and whether set -e ended the
\* shell at a command with a non-zero status
RECURSIVE Checks(_, _, _, _)
Checks(i, errors, checked, failing) ==
  IF i > Len(FatalChecks)
    THEN [ errors |-> errors, checked |-> checked, ended |-> FALSE ]
    ELSE LET c == FatalChecks[i]
             inc == PostIncrement(errors)
         IN  IF c \notin failing
               THEN Checks(i + 1, errors, Append(checked, c), failing)
               ELSE IF inc.status # 0
                 THEN [ errors |-> inc.errors, checked |-> Append(checked, c),
                        ended |-> TRUE ]
                 ELSE Checks(i + 1, inc.errors, Append(checked, c), failing)

PreflightFailed ==
  << "Preflight failed with 1 error(s)", "Preflight failed with 2 error(s)",
     "Preflight failed with 3 error(s)", "Preflight failed with 4 error(s)",
     "Preflight failed with 5 error(s)" >>

\* step_preflight: skipped when marked done (no verification); else the
\* checks, then `exit 1` with the count when errors > 0, else mark_step_done.
\* The unmet conditions are those of the environment, any of them
step_preflight(a, sf, e) ==
  IF is_step_done(sf, "preflight")
    THEN { Out(sf, e, "skip", {}) }
    ELSE { LET r == Checks(1, 0, << >>, failing)
           IN  IF r.ended
                 THEN [Out(sf, e, "exit", {}) EXCEPT
                         !.msg = "error: " \o r.checked[Len(r.checked)],
                         !.fatal = failing, !.checked = r.checked]
                 ELSE IF r.errors > 0
                   THEN [Out(sf, e, "exit", {}) EXCEPT
                           !.msg = PreflightFailed[r.errors],
                           !.fatal = failing, !.checked = r.checked]
                   ELSE [Out(mark_step_done(sf, "preflight"), e, "ok", {}) EXCEPT
                           !.checked = r.checked]
           : failing \in SUBSET Names(FatalChecks) }

step_init(a, sf, e) ==
  IF is_step_done(sf, "init") /\ verify_init(sf, e)
    THEN { Out(sf, e, "skip", {}) }
    ELSE LET detected_bump == detect_bump_type(e.subjects)
             BUMP_TYPE == IF a.bump = "auto" THEN detected_bump ELSE a.bump
             sf1 == save_state(sf, "original_commit", get_current_commit(e))
             sf2 == save_state(sf1, "bump_type", BUMP_TYPE)
         IN  { [Out(mark_step_done(sf2, "init"), e, "ok", {}) EXCEPT
                  !.detected = detected_bump] }

step_show_commits(a, sf, e) ==
  IF is_step_done(sf, "show_commits") /\ verify_show_commits(sf, e)
    THEN { Out(sf, e, "skip", {}) }
    ELSE LET last_tag == get_last_tag(e)
             sf1 == IF last_tag # ""
                      THEN save_state(sf, "last_tag", last_tag)
                      ELSE save_state(sf, "no_previous_tag", "true")
         IN  { Out(mark_step_done(sf1, "show_commits"), e, "ok", {}) }

step_create_changeset(a, sf, e) ==
  IF is_step_done(sf, "create_changeset") /\ verify_create_changeset(sf, e)
    THEN { Out(sf, e, "skip", {}) }
    ELSE LET filepath == a.path
             bump_type == get_state(sf, "bump_type")
             sf1 == save_state(sf, "changeset_file", filepath)
             marked == mark_step_done(sf1, "create_changeset")
         IN  IF a.dry
               THEN { Out(marked, e, "ok", {}) }
               ELSE { IF o.act # {} THEN [o EXCEPT !.changeset = bump_type] ELSE o :
                      o \in External(sf, e, [e EXCEPT !.csFiles = @ \cup {filepath}],
                                     "create changeset", marked) }

step_edit_changeset(a, sf, e) ==
  IF is_step_done(sf, "edit_changeset")
    THEN { Out(sf, e, "skip", {}) }
    ELSE LET marked == mark_step_done(sf, "edit_changeset")
         IN  IF ~ a.edit \/ a.dry
               THEN { Out(marked, e, "ok", {}) }
               ELSE External(sf, e, e, "editor", marked)

step_build(a, sf, e) ==
  IF is_step_done(sf, "build") /\ verify_build(sf, e)
    THEN { Out(sf, e, "skip", {}) }
    ELSE LET marked == mark_step_done(sf, "build")
         IN  IF a.dry
               THEN { Out(marked, e, "ok", {}) }
               ELSE External(sf, e, [e EXCEPT !.dist = TRUE], "pnpm build", marked)

\* the skip branch of step_version saves version and tag again
step_version(a, sf, e) ==
  IF is_step_done(sf, "version") /\ verify_version(sf, e)
    THEN LET sf1 == save_state(sf, "version", get_pkg_version(e))
         IN  { Out(save_state(sf1, "tag", TagOf(get_pkg_version(e))), e, "skip", {}) }
    ELSE IF a.dry
      THEN LET sf1 == save_state(sf, "version", DryVersion)
               sf2 == save_state(sf1, "tag", TagOf(DryVersion))
           IN  { Out(mark_step_done(sf2, "version"), e, "ok", {}) }
      ELSE IF e.pkgVersion = Len(VerStr)
        THEN { Out(sf, e, "exit", {}) }
        ELSE LET e1 == [e EXCEPT !.pkgVersion = @ + 1, !.changelog = TRUE]
                 sf1 == save_state(sf, "version", get_pkg_version(e1))
                 sf2 == save_state(sf1, "tag", TagOf(get_pkg_version(e1)))
             IN  External(sf, e, e1, "changeset version",
                          mark_step_done(sf2, "version"))

\* git add -A; git commit -m "RELEASE: v$version": the new HEAD records the
\* message's version and the package.json and CHANGELOG.md it commits
step_git_commit(a, sf, e) ==
  IF is_step_done(sf, "git_commit") /\ verify_git_commit(sf, e)
    THEN { Out(sf, e, "skip", {}) }
    ELSE LET version == get_state(sf, "version")
             marked == mark_step_done(sf, "git_commit")
         IN  IF a.dry
               THEN { Out(marked, e, "ok", {}) }
               ELSE IF Len(e.head) + 1 = Len(CommitStr)
                 THEN { Out(sf, e, "exit", {}) }
                 ELSE External(sf, e,
                        [e EXCEPT !.head = Append(@, [ msg |-> version,
                                                       pkg |-> e.pkgVersion,
                                                       clog |-> e.changelog ])],
                        "git commit", marked)

\* what the operator types at "Continue? [y/N]" (read -n 1)
Replies == { "y", "Y", "n" }

\* step_npm_publish with `affirmative` the replies taken for a yes.  The
\* prompt is made only when neither --yes nor --dry-run is given; a reply
\* that is not affirmative is `exit 1`
publish(a, sf, e, affirmative) ==
  IF is_step_done(sf, "npm_publish") /\ verify_npm_publish(sf, e)
    THEN { Out(sf, e, "skip", {}) }
    ELSE LET marked == mark_step_done(sf, "npm_publish")
             Publishing ==
               IF a.dry
                 THEN { Out(marked, e, "ok", {}) }
                 ELSE External(sf, e, [e EXCEPT !.npm = @ \cup {get_pkg_version(e)}],
                               "changeset publish", marked)
             After(REPLY) ==
               IF REPLY \in affirmative
                 THEN { [o EXCEPT !.reply = REPLY] : o \in Publishing }
                 ELSE { [Out(sf, e, "exit", {}) EXCEPT !.msg = "Aborted by user",
                                                       !.reply = REPLY] }
         IN  IF ~ a.yes /\ ~ a.dry
               THEN UNION { After(REPLY) : REPLY \in Replies }
               ELSE Publishing

\* a publish step that goes on whatever the reply
step_npm_publish_any_reply(a, sf, e) == publish(a, sf, e, Replies)

\* step_npm_publish: [[ ! $REPLY =~ ^[Yy]$ ]] is the refusal
step_npm_publish(a, sf, e) == publish(a, sf, e, { "y", "Y" })

\* git push --follow-tags: the remote gets the tag of the packaged version
step_git_push(a, sf, e) ==
  IF is_step_done(sf, "git_push") /\ verify_git_push(sf, e)
    THEN { Out(sf, e, "skip", {}) }
    ELSE LET marked == mark_step_done(sf, "git_push")
         IN  IF a.dry
               THEN { Out(marked, e, "ok", {}) }
               ELSE External(sf, e,
                      [e EXCEPT !.remoteTags = @ \cup {TagOf(get_pkg_version(e))}],
                      "git push", marked)

\* step_gh_release.  verify_gh_release (gh release view) is evaluated when
\* the step is marked done; then the repository of package.json and the
\* login (gh auth status) are tested; then gh release create and gh release
\* edit, of which the second can fail with the release already created.
\* host is the set of gh commands that went to the release host
step_gh_release(a, sf, e) ==
  LET done == is_step_done(sf, "gh_release")
      viewed == IF done THEN {"gh release view"} ELSE {}
      Asked(S, cmds) == { [o EXCEPT !.host = viewed \cup cmds \cup o.act] : o \in S }
  IN  IF done /\ verify_gh_release(sf, e)
        THEN Asked({ Out(sf, e, "skip", {}) }, {})
        ELSE LET version == get_state(sf, "version")
                 repo == get_repo(e)
                 tag == TagOf(version)
                 marked == mark_step_done(sf, "gh_release")
                 e1 == [e EXCEPT !.ghReleases = @ \cup {tag}]
             IN  IF repo = ""
                   THEN Asked({ [Out(marked, e, "ok", {}) EXCEPT
                                   !.msg = "Skipping GitHub release (no repository.url)"] },
                              {})
                   ELSE \* is_gh_logged_in asks the host: either answer
                        Asked({ [Out(marked, e, "ok", {}) EXCEPT
                                   !.msg = "Skipping GitHub release (not logged in)"] },
                              {"gh auth status"})
                        \cup
                        Asked(IF a.dry
                                THEN { Out(marked, e, "ok", {}) }
                                ELSE External(sf, e, e1, "gh release create", marked)
                                     \cup { Out(sf, e1, "exit", {"gh release create"}) },
                              {"gh auth status"})

\* a cleanup that does not test $DRY_RUN
step_cleanup_always_clears(a, sf, e) == { Out(clear_state(sf), e, "ok", {}) }

\* a cleanup that ends with mark_step_done "cleanup", as every other step does
step_cleanup_marks_done(a, sf, e) ==
  IF a.dry
    THEN { Out(mark_step_done(sf, "cleanup"), e, "ok", {}) }
    ELSE { Out(mark_step_done(clear_state(sf), "cleanup"), e, "ok", {}) }

\* step_cleanup never marks itself done
step_cleanup(a, sf, e) ==
  IF a.dry
    THEN { Out(sf, e, "ok", {}) }
    ELSE { Out(clear_state(sf), e, "ok", {}) }

(***************************************************************************)
(* RUNNERS                                                                 *)
(***************************************************************************)
\* run_step: dispatch by name; an unknown name is `exit 1`
run_step(a, step, sf, e) ==
  CASE step = "preflight" -> step_preflight(a, sf, e)
    [] step = "init" -> step_init(a, sf, e)
    [] step = "show_commits" -> step_show_commits(a, sf, e)
    [] step = "create_changeset" -> step_create_changeset(a, sf, e)
    [] step = "edit_changeset" -> step_edit_changeset(a, sf, e)
    [] step = "build" -> step_build(a, sf, e)
    [] step = "version" -> step_version(a, sf, e)
    [] step = "git_commit" -> step_git_commit(a, sf, e)
    [] step = "npm_publish" -> step_npm_publish(a, sf, e)
    [] step = "git_push" -> step_git_push(a, sf, e)
    [] step = "gh_release" -> step_gh_release(a, sf, e)
    [] step = "cleanup" -> step_cleanup(a, sf, e)
    [] OTHER -> { [Out(sf, e, "exit", {}) EXCEPT !.msg = "Unknown step"] }

\* resume that starts again at last_step instead of the step after it
resume_same_index(sf) ==
  IF ~ has_state(sf)
    THEN get_step_index("preflight")
    ELSE get_step_index(get_state(sf, "last_step"))

\* resume: the index of the first step to run; NSteps and more means
\* "Release already complete"
resume_next_index(sf) ==
  IF ~ has_state(sf)
    THEN get_step_index("preflight")
    ELSE get_step_index(get_state(sf, "last_step")) + 1

(***************************************************************************)
(* ROLLBACK FUNCTIONS.  r is the rollback so far: state file, world, the   *)
(* compensations announced (comps), the external commands run (act), and   *)
(* res = "exit" once a failing command has ended the shell.                *)
(***************************************************************************)
RB(sf, e, comps, act, res) ==
  [ sf |-> sf, ext |-> e, comps |-> comps, act |-> act, res |-> res ]

\* the commits under HEAD after git reset --hard to commit hash oc
ResetTo(e, oc) ==
  LET k == (CHOOSE i \in 1..Len(CommitStr) : CommitStr[i] = oc) - 1
      snap == IF k = 0 THEN e.base ELSE e.head[k]
  IN  [e EXCEPT !.head = SubSeq(@, 1, k), !.pkgVersion = snap.pkg,
                !.changelog = snap.clog]

\* $DRY_RUN || git reset --hard: a failing reset ends the shell (set -e)
rollback_git_commit(a, r) ==
  LET original_commit == get_state(r.sf, "original_commit")
      said == Append(r.comps, "git_commit")
  IN  IF r.res = "exit" \/ original_commit = "" THEN { r }
      ELSE IF a.dry THEN { RB(r.sf, r.ext, said, r.act, r.res) }
      ELSE { RB(r.sf, r.ext, said, r.act, "exit") } \cup
           ( IF \E i \in 1..(Len(r.ext.head) + 1) : CommitStr[i] = original_commit
               THEN { RB(r.sf, ResetTo(r.ext, original_commit), said,
                         r.act \cup {"git reset"}, r.res) }
               ELSE {} )

rollback_changeset(a, r) ==
  LET changeset_file == get_state(r.sf, "changeset_file")
      said == Append(r.comps, "changeset")
  IN  IF r.res = "exit" \/ changeset_file = "" \/ changeset_file \notin r.ext.csFiles
        THEN { r }
      ELSE IF a.dry THEN { RB(r.sf, r.ext, said, r.act, r.res) }
      ELSE { RB(r.sf, [r.ext EXCEPT !.csFiles = @ \ {changeset_file}], said,
                r.act \cup {"rm changeset"}, r.res) }

\* git push origin :refs/tags/$tag || true: a failure is ignored
rollback_remote_tag(a, r) ==
  LET tag == get_state(r.sf, "tag")
      said == Append(r.comps, "remote_tag")
  IN  IF r.res = "exit" \/ tag = "" THEN { r }
      ELSE IF a.dry THEN { RB(r.sf, r.ext, said, r.act, r.res) }
      ELSE { RB(r.sf, r.ext, said, r.act \cup {"delete remote tag"}, r.res),
             RB(r.sf, [r.ext EXCEPT !.remoteTags = @ \ {tag}], said,
                r.act \cup {"delete remote tag"}, r.res) }

\* gh release delete "$tag" --yes || true: a failure is ignored
rollback_gh_release(a, r) ==
  LET tag == get_state(r.sf, "tag")
      said == Append(r.comps, "gh_release")
  IN  IF r.res = "exit" \/ tag = "" THEN { r }
      ELSE IF a.dry THEN { RB(r.sf, r.ext, said, r.act, r.res) }
      ELSE { RB(r.sf, r.ext, said, r.act \cup {"gh release delete"}, r.res),
             RB(r.sf, [r.ext EXCEPT !.ghReleases = @ \ {tag}], said,
                r.act \cup {"gh release delete"}, r.res) }

\* a rollback that clears the state whether or not its commands succeeded
rollback_clear_unconditional(a, r) ==
  IF a.dry THEN r ELSE [r EXCEPT !.sf = clear_state(r.sf)]

\* $DRY_RUN || clear_state, reached only when no command ended the shell
rollback_clear(a, r) ==
  IF r.res = "exit" \/ a.dry THEN r ELSE [r EXCEPT !.sf = clear_state(r.sf)]

\* a rollback that does not look at last_step: always the longest chain
rollback_full_chain(a, sf, e) ==
  LET r0 == RB(sf, e, << >>, {}, "ok")
      Then(S, F(_, _)) == UNION { F(a, r) : r \in S }
      chain == Then(Then(rollback_gh_release(a, r0), rollback_remote_tag),
                    rollback_git_commit)
  IN  { rollback_clear(a, r) : r \in chain }

\* rollback: the chain chosen by last_step, then the state is cleared
rollback(a, sf, e) ==
  LET last_step == get_state(sf, "last_step")
      r0 == RB(sf, e, << >>, {}, "ok")
      Then(S, F(_, _)) == UNION { F(a, r) : r \in S }
      chain ==
        CASE last_step = "gh_release" ->
               Then(Then(rollback_gh_release(a, r0), rollback_remote_tag),
                    rollback_git_commit)
          [] last_step = "git_push" ->
               Then(rollback_remote_tag(a, r0), rollback_git_commit)
          [] last_step = "npm_publish" ->
               rollback_git_commit(a, [r0 EXCEPT !.comps = << "manual" >>])
          [] last_step \in {"git_commit", "version"} ->
               rollback_git_commit(a, r0)
          [] last_step \in {"create_changeset", "edit_changeset"} ->
               rollback_changeset(a, r0)
          [] OTHER -> { r0 }
  IN  { rollback_clear(a, r) : r \in chain }

(***************************************************************************)
(* The state of the system.                                                *)
(***************************************************************************)
VARIABLES
  stateFile,    \* .release-state
  lockFile,     \* .release-lock: the pid written in it, NoPid when absent
  ext,          \* the external world the steps act on
  proc,         \* the runs of the script, by pid
  drifts,       \* manual interventions so far
  fail,         \* the last step failure: the step, the steps that succeeded first
  pending,      \* the completed step whose effect was undone since the last run
  provisional,  \* steps marked done under --dry-run and not run for real since
  reached,      \* steps whose real command has run since the state was last cleared
  text,         \* .release-state as the text save_state and get_state work on
  written       \* for each key of that text, the value last passed to save_state

vars == << stateFile, lockFile, ext, proc, drifts, fail, pending, provisional, reached, text, written >>

Modes == { "resume", "step", "from", "rollback", "status" }

\* the command lines of a run: ACTION / RUN_STEP / RUN_FROM, DRY_RUN, YES,
\* EDIT_CHANGELOG, BUMP_TYPE
ArgsOf(p) ==
  LET Args(m, s, d, y, ed) ==
        [ mode |-> m, step |-> s, dry |-> d, yes |-> y, edit |-> ed,
          bump |-> "patch", flag |-> "", path |-> PathStr[p] ]
  IN  { Args("resume", "", d, y, ~ y) : d \in BOOLEAN, y \in BOOLEAN }
      \cup { Args("step", s, d, TRUE, TRUE) : s \in StepNames, d \in BOOLEAN }
      \cup { Args("from", s, d, TRUE, TRUE) : s \in FromNames, d \in BOOLEAN }
      \cup { Args(m, "", d, FALSE, TRUE) : m \in {"rollback", "status"},
                                           d \in BOOLEAN }

NoArgs ==
  [ mode |-> "", step |-> "", dry |-> FALSE, yes |-> FALSE, edit |-> TRUE,
    bump |-> "patch", flag |-> "", path |-> "" ]

NoFail == [ step |-> "", prior |-> << >> ]

IdleProc ==
  [ pc |-> "idle",      \* where the run is
    a |-> NoArgs,       \* its command line
    rpid |-> NoPid,     \* acquire_lock: local pid
    trap |-> FALSE,     \* the EXIT trap that removes the lock file is set
    acquired |-> FALSE, \* it wrote its pid to the lock file
    code |-> 0,         \* exit status
    kind |-> "",        \* how it ended: "exit", "signal" (EXIT trap runs), "kill"
    todo |-> << >>,     \* the steps the runner has still to call
    visited |-> << >>,  \* the steps run_step was called with
    attempted |-> << >>,\* those of them that did not log_skip
    act |-> {},         \* the external mutating commands it ran
    comps |-> << >>,    \* the compensations rollback announced
    ok |-> << >>,       \* those of them that ran and returned 0
    drifted |-> "",     \* the step whose effect was undone just before the run
    msg |-> "",         \* the last message it logged
    reply |-> "",       \* what the operator typed at the publish prompt
    fatal |-> {},       \* step_preflight: the fatal conditions that were unmet
    checked |-> << >>,  \* step_preflight: the fatal checks it evaluated
    detected |-> "",    \* step_init: what detect_bump_type printed
    host |-> {},        \* the gh commands that went to the release host
    again |-> {},       \* steps whose command it ran although an earlier run's
                        \* command had taken effect and verification would pass
    changeset |-> "",   \* step_create_changeset: the bump type it wrote in the file
    writes |-> << >>,   \* the save_state calls of the write in progress
    before |-> NoState, \* the state file when that write began
    after |-> NoState,  \* the state file the whole write produces
    tmp |-> << >>,      \* the lines of "${STATE_FILE}.tmp"
    unbacked |-> {} ]   \* at "Released": provisional steps with no real effect

\* a run that ended before the latest one started: only its end is kept
Reaped == [IdleProc EXCEPT !.pc = "gone"]

FreshRepo ==
  [ csFiles |-> {}, dist |-> FALSE, changelog |-> FALSE, pkgVersion |-> 1,
    head |-> << >>, base |-> [ pkg |-> 1, clog |-> FALSE ], npm |-> {},
    remoteTags |-> {}, ghReleases |-> {}, lastTag |-> "",
    subjects |-> << << "feat", ":", "add export" >> >>, config |-> NoConfig,
    repo |-> "owner/name" ]

ReleasedRepo ==
  [ csFiles |-> {}, dist |-> TRUE, changelog |-> TRUE, pkgVersion |-> 1,
    head |-> << >>, base |-> [ pkg |-> 1, clog |-> TRUE ], npm |-> { VerStr[1] },
    remoteTags |-> { TagOf(VerStr[1]) }, ghReleases |-> { TagOf(VerStr[1]) },
    lastTag |-> TagOf(VerStr[1]),
    subjects |-> << << "fix", ":", "typo" >> >>, config |-> NoConfig,
    repo |-> "owner/name" ]

Init ==
  /\ stateFile = NoState
  /\ lockFile = NoPid
  /\ ext \in { FreshRepo, ReleasedRepo }
  /\ proc = [ p \in Procs |-> IdleProc ]
  /\ drifts = 0
  /\ fail = NoFail
  /\ pending = ""
  /\ provisional = {}
  /\ reached = {}
  /\ text = NoText
  /\ written = [ key \in TextKeys |-> << >> ]

Alive(pid) == pid \in Procs /\ proc[pid].pc \notin { "idle", "gone" }
Quiet == \A q \in Procs : ~ Alive(q)

\* the end of a run: the EXIT trap, when set, removes the lock file
Gone(pr, code, kind, msg) ==
  [pr EXCEPT !.pc = "gone", !.code = code, !.kind = kind, !.msg = msg]

LockAfterExit(pr, kind) ==
  IF pr.trap /\ kind # "kill" THEN NoPid ELSE lockFile

\* the ERR trap set before the dispatch: what it logs
ERR_trap(sf) == "Failed at step: " \o get_state(sf, "last_step")

\* the script sets -e alone: functions do not inherit the ERR trap
errtrace == FALSE

\* what is logged when a command fails inside a step function and set -e
\* ends the shell there
FailureReport(sf) == IF errtrace THEN ERR_trap(sf) ELSE ""

(***************************************************************************)
(* A run starts: arguments are parsed; help/status/rollback go straight    *)
(* to the dispatch, everything else to acquire_lock.  Runs start in pid    *)
(* order.                                                                  *)
(***************************************************************************)
Begin(p, a) ==
  /\ proc[p].pc = "idle"
  /\ \A q \in Procs : q < p => proc[q].pc # "idle"
  /\ LET loaded == load_config(a, ext.config)
     IN  proc' = [ q \in Procs |->
                   IF q = p
                     THEN IF loaded.status # 0
                            THEN Gone([proc[p] EXCEPT !.a = loaded.a], 1, "exit", "")
                            ELSE [proc[p] EXCEPT
                                    !.a = loaded.a, !.drifted = pending,
                                    !.pc = IF a.mode \in {"rollback", "status"}
                                             THEN "dispatch" ELSE "l203"]
                     ELSE IF proc[q].pc = "gone" THEN Reaped ELSE proc[q] ]
  /\ fail' = IF a.mode = "resume" THEN fail ELSE NoFail
  /\ pending' = ""
  /\ UNCHANGED << stateFile, lockFile, ext, drifts, provisional, reached, text, written >>

\* one run at a time
Start(p) == Quiet /\ \E a \in ArgsOf(p) : Begin(p, a)

(***************************************************************************)
(* acquire_lock, command by command.                                       *)
(***************************************************************************)
\* [ -f "$LOCK_FILE" ]
Lock203(p) ==
  /\ proc[p].pc = "l203"
  /\ proc' = [proc EXCEPT ![p].pc = IF lockFile # NoPid THEN "l204" ELSE "l213"]
  /\ UNCHANGED << stateFile, lockFile, ext, drifts, fail, pending, provisional, reached, text, written >>

\* local pid=$(cat "$LOCK_FILE"): empty when the file has gone meanwhile
Lock204(p) ==
  /\ proc[p].pc = "l204"
  /\ proc' = [proc EXCEPT ![p].pc = "l205", ![p].rpid = lockFile]
  /\ UNCHANGED << stateFile, lockFile, ext, drifts, fail, pending, provisional, reached, text, written >>

\* an owner test that takes every lock file for stale
OwnerNeverAlive(pid) == FALSE

\* the owner test of acquire_lock: kill -0 "$pid"
OwnerAlive(pid) == Alive(pid)

\* kill -0 "$pid": exit 1 when the owner lives (no EXIT trap is set yet)
Lock205(p) ==
  /\ proc[p].pc = "l205"
  /\ proc' = [proc EXCEPT ![p] =
                IF OwnerAlive(@.rpid)
                  THEN Gone(@, 1, "exit", "Another release is in progress")
                  ELSE [@ EXCEPT !.pc = "l210"]]
  /\ UNCHANGED << stateFile, lockFile, ext, drifts, fail, pending, provisional, reached, text, written >>

\* rm -f "$LOCK_FILE"
Lock210(p) ==
  /\ proc[p].pc = "l210"
  /\ lockFile' = NoPid
  /\ proc' = [proc EXCEPT ![p].pc = "l213"]
  /\ UNCHANGED << stateFile, ext, drifts, fail, pending, provisional, reached, text, written >>

\* echo $$ > "$LOCK_FILE"
Lock213(p) ==
  /\ proc[p].pc = "l213"
  /\ lockFile' = p
  /\ proc' = [proc EXCEPT ![p].pc = "l214", ![p].acquired = TRUE]
  /\ UNCHANGED << stateFile, ext, drifts, fail, pending, provisional, reached, text, written >>

\* trap 'rm -f "$LOCK_FILE"' EXIT
Lock214(p) ==
  /\ proc[p].pc = "l214"
  /\ proc' = [proc EXCEPT ![p].pc = "dispatch", ![p].trap = TRUE]
  /\ UNCHANGED << stateFile, lockFile, ext, drifts, fail, pending, provisional, reached, text, written >>

(***************************************************************************)
(* The dispatch at the end of the script (case "${ACTION:-}").             *)
(***************************************************************************)
\* the predicate verify_<step>
Verify(step, sf, e) ==
  CASE step = "preflight" -> verify_preflight(sf, e)
    [] step = "init" -> verify_init(sf, e)
    [] step = "show_commits" -> verify_show_commits(sf, e)
    [] step = "create_changeset" -> verify_create_changeset(sf, e)
    [] step = "edit_changeset" -> verify_edit_changeset(sf, e)
    [] step = "build" -> verify_build(sf, e)
    [] step = "version" -> verify_version(sf, e)
    [] step = "git_commit" -> verify_git_commit(sf, e)
    [] step = "npm_publish" -> verify_npm_publish(sf, e)
    [] step = "git_push" -> verify_git_push(sf, e)
    [] step = "gh_release" -> verify_gh_release(sf, e)
    [] step = "cleanup" -> verify_cleanup(sf, e)
    [] OTHER -> FALSE

\* the steps whose body differs under --dry-run (log_dry / $DRY_RUN)
DrySteps ==
  { "create_changeset", "edit_changeset", "build", "version", "git_commit",
    "npm_publish", "git_push", "gh_release" }

\* a loop that starts at the first step whatever the index
StepsFromFirst(i) == SubSeq(STEPS, 1, NSteps)

\* the steps the loop of run_from_step calls, from 0-based index i on
StepsFrom(i) == SubSeq(STEPS, i + 1, NSteps)

\* status: reads the state file, changes nothing
Status(p) ==
  /\ proc[p].pc = "dispatch"
  /\ proc[p].a.mode = "status"
  /\ proc' = [proc EXCEPT ![p] =
                Gone(@, 0, "exit", IF has_state(stateFile) THEN "Release Status"
                                   ELSE "No release in progress")]
  /\ lockFile' = LockAfterExit(proc[p], "exit")
  /\ UNCHANGED << stateFile, ext, drifts, fail, pending, provisional, reached, text, written >>

\* --rollback: rollback when there is a state file
Rollback(p) ==
  /\ proc[p].pc = "dispatch"
  /\ proc[p].a.mode = "rollback"
  /\ IF has_state(stateFile)
       THEN \E r \in rollback(proc[p].a, stateFile, ext) :
              /\ stateFile' = r.sf
              /\ ext' = r.ext
              /\ proc' = [proc EXCEPT ![p] =
                   Gone([@ EXCEPT !.comps = r.comps, !.act = r.act],
                        IF r.res = "exit" THEN 1 ELSE 0, "exit",
                        IF r.res = "exit" THEN "" ELSE "Rollback complete")]
              /\ provisional' = IF has_state(r.sf) THEN provisional ELSE {}
              /\ reached' = IF has_state(r.sf) THEN reached ELSE {}
       ELSE /\ proc' = [proc EXCEPT ![p] = Gone(@, 0, "exit", "No release in progress")]
            /\ UNCHANGED << stateFile, ext, provisional, reached, text, written >>
  /\ lockFile' = LockAfterExit(proc[p], "exit")
  /\ UNCHANGED << drifts, fail, pending, text, written >>

\* --step name: run_step "$RUN_STEP"
RunOne(p) ==
  /\ proc[p].pc = "dispatch"
  /\ proc[p].a.mode = "step"
  /\ proc' = [proc EXCEPT ![p].pc = "steps", ![p].todo = << proc[p].a.step >>]
  /\ UNCHANGED << stateFile, lockFile, ext, drifts, fail, pending, provisional, reached, text, written >>

\* run_from_step: exit 1 for an unknown name, else the loop over STEPS
run_from_step(pr, start_step) ==
  LET start_index == get_step_index(start_step)
  IN  IF start_index = -1
        THEN Gone(pr, 1, "exit", "Unknown step")
        ELSE [pr EXCEPT !.pc = "steps", !.todo = StepsFrom(start_index)]

\* --from name
RunFrom(p) ==
  /\ proc[p].pc = "dispatch"
  /\ proc[p].a.mode = "from"
  /\ proc' = [proc EXCEPT ![p] = run_from_step(@, @.a.step)]
  /\ lockFile' = IF proc'[p].pc = "gone" THEN LockAfterExit(proc[p], "exit") ELSE lockFile
  /\ UNCHANGED << stateFile, ext, drifts, fail, pending, provisional, reached, text, written >>

\* resume
Resume(p) ==
  /\ proc[p].pc = "dispatch"
  /\ proc[p].a.mode = "resume"
  /\ LET next_index == resume_next_index(stateFile)
     IN  IF has_state(stateFile) /\ next_index >= NSteps
           THEN /\ stateFile' = clear_state(stateFile)
                /\ provisional' = {}
                /\ reached' = {}
                /\ proc' = [proc EXCEPT ![p].pc = "steps", ![p].todo = << >>,
                                        ![p].msg = "Release already complete"]
           ELSE /\ proc' = [proc EXCEPT ![p] = run_from_step(@, StepAt(next_index))]
                /\ UNCHANGED << stateFile, provisional, reached, text, written >>
  /\ UNCHANGED << lockFile, ext, drifts, fail, pending, text, written >>

\* one iteration of the runner: run_step on the next step
RunStep(p) ==
  /\ proc[p].pc = "steps"
  /\ proc[p].todo # << >>
  /\ LET pr == proc[p]
         step == Head(pr.todo)
     IN  \E o \in run_step(pr.a, step, stateFile, ext) :
           LET seen == [pr EXCEPT !.visited = Append(@, step),
                                  !.attempted = IF o.res = "skip" THEN @
                                                ELSE Append(@, step),
                                  !.ok = IF o.res = "ok" THEN Append(@, step) ELSE @,
                                  !.act = @ \cup o.act,
                                  !.reply = IF o.reply # "" THEN o.reply ELSE @,
                                  !.fatal = IF step = "preflight" THEN o.fatal ELSE @,
                                  !.checked = IF step = "preflight" THEN o.checked
                                              ELSE @,
                                  !.detected = IF o.detected # "" THEN o.detected
                                               ELSE @,
                                  !.host = @ \cup o.host,
                                  !.again = IF /\ step \in reached
                                               /\ Verify(step, stateFile, ext)
                                               /\ o.act # {}
                                              THEN @ \cup {step} ELSE @,
                                  !.changeset = IF o.changeset # "" THEN o.changeset
                                                ELSE @]
               released == step = "cleanup" /\ ~ pr.a.dry
           IN  /\ stateFile' = o.sf
               /\ ext' = o.ext
               /\ proc' = [proc EXCEPT ![p] =
                    CASE o.res = "exit" ->
                           Gone(seen, 1, "exit",
                                IF o.msg # "" THEN o.msg ELSE FailureReport(o.sf))
                      [] o.res = "died" -> Gone(seen, 130, "signal", "")
                      [] OTHER ->
                           [seen EXCEPT
                              !.todo = Tail(@),
                              !.msg = IF released THEN "Released"
                                      ELSE IF o.msg # "" THEN o.msg ELSE @,
                              !.unbacked =
                                IF released
                                  THEN { s \in provisional : ~ Verify(s, stateFile, ext) }
                                  ELSE @]]
               /\ lockFile' = CASE o.res = "exit" -> LockAfterExit(pr, "exit")
                                [] o.res = "died" -> LockAfterExit(pr, "signal")
                                [] OTHER -> lockFile
               /\ fail' = CASE o.res = "exit" /\ pr.ok # << >> ->
                                 [ step |-> step, prior |-> pr.ok ]
                            [] o.res \in {"ok", "skip"} /\ step = fail.step -> NoFail
                            [] OTHER -> fail
               /\ provisional' =
                    CASE ~ has_state(o.sf) -> {}
                      [] o.res = "ok" /\ step \in DrySteps ->
                           IF pr.a.dry THEN provisional \cup {step}
                           ELSE provisional \ {step}
                      [] OTHER -> provisional
               /\ reached' =
                    IF released /\ o.res = "ok" THEN {}
                    ELSE IF o.act # {} THEN reached \cup {step} ELSE reached
  /\ UNCHANGED << drifts, pending, text, written >>

\* the script ends after the last step: exit 0
Finish(p) ==
  /\ proc[p].pc = "steps"
  /\ proc[p].todo = << >>
  /\ proc' = [proc EXCEPT ![p] = Gone(@, 0, "exit", @.msg)]
  /\ lockFile' = LockAfterExit(proc[p], "exit")
  /\ UNCHANGED << stateFile, ext, drifts, fail, pending, provisional, reached, text, written >>

\* SIGINT / SIGTERM between two commands: bash runs the EXIT trap if it is set
Interrupt(p) ==
  /\ Alive(p)
  /\ proc' = [proc EXCEPT ![p] = Gone(@, 130, "signal", @.msg)]
  /\ lockFile' = LockAfterExit(proc[p], "signal")
  /\ UNCHANGED << stateFile, ext, drifts, fail, pending, provisional, reached, text, written >>

\* SIGKILL: no trap runs
Kill(p) ==
  /\ Alive(p)
  /\ proc' = [proc EXCEPT ![p] = Gone(@, 137, "kill", @.msg)]
  /\ UNCHANGED << stateFile, lockFile, ext, drifts, fail, pending, provisional, reached, text, written >>

(***************************************************************************)
(* Manual intervention between two runs: the external effect of a          *)
(* completed step is undone.                                               *)
(***************************************************************************)
Undo(step, sf, e) ==
  CASE step = "create_changeset" ->
         [e EXCEPT !.csFiles = @ \ { get_state(sf, "changeset_file") }]
    [] step = "build" -> [e EXCEPT !.dist = FALSE]
    [] step = "version" -> [e EXCEPT !.changelog = FALSE]
    [] step = "npm_publish" -> [e EXCEPT !.npm = @ \ { get_state(sf, "version") }]
    [] step = "git_push" -> [e EXCEPT !.remoteTags = @ \ { get_state(sf, "tag") }]
    [] step = "gh_release" -> [e EXCEPT !.ghReleases = @ \ { get_state(sf, "tag") }]
    [] OTHER -> e

Drift(step) ==
  /\ Quiet
  /\ \E q \in Procs : proc[q].pc = "idle"
  /\ drifts < MaxDrift
  /\ is_step_done(stateFile, step)
  /\ Verify(step, stateFile, ext)
  /\ ~ Verify(step, stateFile, Undo(step, stateFile, ext))
  /\ ext' = Undo(step, stateFile, ext)
  /\ drifts' = drifts + 1
  /\ pending' = step
  /\ fail' = NoFail
  /\ UNCHANGED << stateFile, lockFile, proc, provisional, reached, text, written >>

(***************************************************************************)
(* Spec: the runs follow one another.                                      *)
(***************************************************************************)
Next ==
  \/ \E p \in Procs :
       \/ Start(p)
       \/ Lock203(p) \/ Lock204(p) \/ Lock205(p) \/ Lock210(p) \/ Lock213(p)
       \/ Lock214(p)
       \/ Status(p) \/ Rollback(p) \/ RunOne(p) \/ RunFrom(p) \/ Resume(p)
       \/ RunStep(p) \/ Finish(p)
       \/ Interrupt(p) \/ Kill(p)
  \/ \E step \in DrySteps : Drift(step)

Spec == Init /\ [][Next]_vars

(***************************************************************************)
(* SpecLock: the runs are started at any time, also while another one is   *)
(* between two commands.                                                   *)
(***************************************************************************)
LockArgsOf(p) ==
  { a \in ArgsOf(p) : \/ a.mode = "step" /\ a.step \in {"build", "version", "cleanup"}
                      \/ a.mode \in {"rollback", "status"} /\ ~ a.dry }

StartConcurrent(p) == \E a \in LockArgsOf(p) : Begin(p, a)

NextLock ==
  \E p \in Procs :
    \/ StartConcurrent(p)
    \/ Lock203(p) \/ Lock204(p) \/ Lock205(p) \/ Lock210(p) \/ Lock213(p)
    \/ Lock214(p)
    \/ Status(p) \/ Rollback(p) \/ RunOne(p)
    \/ RunStep(p) \/ Finish(p)
    \/ Interrupt(p) \/ Kill(p)

SpecLock == Init /\ [][NextLock]_vars

(***************************************************************************)
(* SpecResume: resume applied to any state record, as the program left it  *)
(* or as written by other tooling: completed_steps is any prefix of STEPS  *)
(* and last_step its last name.                                            *)
(***************************************************************************)
RECURSIVE RecordOf(_)
RecordOf(k) == IF k = 0 THEN NoState ELSE mark_step_done(RecordOf(k - 1), STEPS[k])

InitResume ==
  /\ stateFile \in { RecordOf(k) : k \in 0..NSteps }
  /\ lockFile = NoPid
  /\ ext \in { FreshRepo, ReleasedRepo }
  /\ proc = [ p \in Procs |-> IdleProc ]
  /\ drifts = 0
  /\ fail = NoFail
  /\ pending = ""
  /\ provisional = {}
  /\ reached = {}
  /\ text = NoText
  /\ written = [ key \in TextKeys |-> << >> ]

StartResume(p) ==
  /\ Quiet
  /\ \E a \in { b \in ArgsOf(p) : b.mode \in {"resume", "from"} } : Begin(p, a)

NextResume ==
  \E p \in Procs :
    \/ StartResume(p)
    \/ Lock203(p) \/ Lock213(p) \/ Lock214(p)
    \/ Resume(p) \/ RunFrom(p)
    \/ RunStep(p) \/ Finish(p)

SpecResume == InitResume /\ [][NextResume]_vars

(***************************************************************************)
(* The state writes, command by command.  A run performs the writes of the *)
(* pipeline: mark_step_done for the next step, and save_state of "version" *)
(* as step_version does.  save_state is three commands (grep -v into the   *)
(* temporary file, mv, echo >>); mark_step_done is two save_state calls.   *)
(* A signal can arrive between any two commands.                           *)
(***************************************************************************)
WriteVersions == { VerStr[1], VerStr[2], DryVersion }

StartWrite(p) ==
  /\ Quiet
  /\ proc[p].pc = "idle"
  /\ \A q \in Procs : q < p => proc[q].pc # "idle"
  /\ proc' = [ q \in Procs |->
                IF q = p THEN [IdleProc EXCEPT !.pc = "write"]
                ELSE IF proc[q].pc = "gone" THEN Reaped ELSE proc[q] ]
  /\ UNCHANGED << stateFile, lockFile, ext, drifts, fail, pending, provisional, reached, text, written >>

\* mark_step_done "$step": reads completed_steps, then calls save_state twice
MarkStepDone(p) ==
  /\ proc[p].pc = "write"
  /\ Len(get_state(stateFile, "completed_steps")) < NSteps
  /\ LET done_steps == get_state(stateFile, "completed_steps")
         step == STEPS[Len(done_steps) + 1]
     IN  proc' = [proc EXCEPT ![p].pc = "save224",
                              ![p].writes = << << "completed_steps", Append(done_steps, step) >>,
                                               << "last_step", step >> >>,
                              ![p].before = stateFile,
                              ![p].after = mark_step_done(stateFile, step)]
  /\ UNCHANGED << stateFile, lockFile, ext, drifts, fail, pending, provisional, reached, text, written >>

\* save_state "version" "$version"
SaveVersion(p) ==
  /\ proc[p].pc = "write"
  /\ \E version \in WriteVersions \ { get_state(stateFile, "version") } :
       proc' = [proc EXCEPT ![p].pc = "save224",
                            ![p].writes = << << "version", version >> >>,
                            ![p].before = stateFile,
                            ![p].after = save_state(stateFile, "version", version)]
  /\ UNCHANGED << stateFile, lockFile, ext, drifts, fail, pending, provisional, reached, text, written >>

\* if [ -f "$STATE_FILE" ]
Save224(p) ==
  /\ proc[p].pc = "save224"
  /\ proc' = [proc EXCEPT ![p].pc = IF has_state(stateFile) THEN "save225" ELSE "save228"]
  /\ UNCHANGED << stateFile, lockFile, ext, drifts, fail, pending, provisional, reached, text, written >>

\* grep -v "^$key:" "$STATE_FILE" > "${STATE_FILE}.tmp" || true
Save225(p) ==
  /\ proc[p].pc = "save225"
  /\ LET key == proc[p].writes[1][1]
         Other(l) == l[1] # key
     IN  proc' = [proc EXCEPT ![p].pc = "save226",
                              ![p].tmp = SelectSeq(stateFile.lines, Other)]
  /\ UNCHANGED << stateFile, lockFile, ext, drifts, fail, pending, provisional, reached, text, written >>

\* mv "${STATE_FILE}.tmp" "$STATE_FILE"
Save226(p) ==
  /\ proc[p].pc = "save226"
  /\ stateFile' = [ exists |-> TRUE, lines |-> proc[p].tmp ]
  /\ proc' = [proc EXCEPT ![p].pc = "save228", ![p].tmp = << >>]
  /\ UNCHANGED << lockFile, ext, drifts, fail, pending, provisional, reached, text, written >>

\* echo "$key:$value" >> "$STATE_FILE"; the function returns, and the next
\* save_state call of the write begins
Save228(p) ==
  /\ proc[p].pc = "save228"
  /\ stateFile' = [ exists |-> TRUE, lines |-> Append(stateFile.lines, proc[p].writes[1]) ]
  /\ proc' = [proc EXCEPT ![p].writes = Tail(@),
                          ![p].pc = IF Len(proc[p].writes) > 1 THEN "save224" ELSE "write"]
  /\ UNCHANGED << lockFile, ext, drifts, fail, pending, provisional, reached, text, written >>

\* the run ends between two writes
EndWrite(p) ==
  /\ proc[p].pc = "write"
  /\ proc' = [proc EXCEPT ![p] = Gone(@, 0, "exit", @.msg)]
  /\ UNCHANGED << stateFile, lockFile, ext, drifts, fail, pending, provisional, reached, text, written >>

NextWrite ==
  \E p \in Procs :
    \/ StartWrite(p)
    \/ MarkStepDone(p) \/ SaveVersion(p)
    \/ Save224(p) \/ Save225(p) \/ Save226(p) \/ Save228(p)
    \/ EndWrite(p)
    \/ Interrupt(p) \/ Kill(p)

SpecWrite == Init /\ [][NextWrite]_vars

(***************************************************************************)
(* The bump type.  The repository has any of a few commit histories and    *)
(* .releaserc files; runs are started with any bump flag and go through    *)
(* init and create_changeset.                                              *)
(***************************************************************************)
MaxCommits == 2

Subjects ==
  { << "feat", ":", "add export" >>,
    << "FEAT", ":", "add import" >>,
    << "fix", ":", "typo" >>,
    << "docs", ":", "mention", "feat" >>,
    << "feat", "!", ":", "drop api" >>,
    << "BREAKING CHANGE", ":", "drop api" >> }

RECURSIVE Histories(_)
Histories(n) ==
  IF n = 0 THEN { << >> }
  ELSE Histories(n - 1) \cup { Append(h, c) : h \in Histories(n - 1), c \in Subjects }

Configs ==
  { NoConfig }
  \cup { [ exists |-> TRUE, bump |-> b, edit |-> ed ] :
           b \in { "", "minor", "auto" }, ed \in { "", "false" } }

\* --patch, --minor, --major, --auto, or none of them
BumpFlags == { "", "patch", "minor", "major", "auto" }

BumpArgsOf(p) ==
  LET Args(m, s, f) ==
        [ mode |-> m, step |-> s, dry |-> FALSE, yes |-> TRUE, edit |-> FALSE,
          bump |-> IF f = "" THEN "patch" ELSE f, flag |-> f, path |-> PathStr[p] ]
  IN  { Args("step", s, f) : s \in { "init", "create_changeset" }, f \in BumpFlags }
      \cup { Args("from", "init", f) : f \in BumpFlags }

InitBump ==
  /\ stateFile = NoState
  /\ lockFile = NoPid
  /\ ext \in { [FreshRepo EXCEPT !.subjects = h, !.config = c] :
                 h \in Histories(MaxCommits), c \in Configs }
  /\ proc = [ p \in Procs |-> IdleProc ]
  /\ drifts = 0
  /\ fail = NoFail
  /\ pending = ""
  /\ provisional = {}
  /\ reached = {}
  /\ text = NoText
  /\ written = [ key \in TextKeys |-> << >> ]

StartBump(p) == Quiet /\ \E a \in BumpArgsOf(p) : Begin(p, a)

NextBump ==
  \E p \in Procs :
    \/ StartBump(p)
    \/ Lock203(p) \/ Lock213(p) \/ Lock214(p)
    \/ RunOne(p) \/ RunFrom(p)
    \/ RunStep(p) \/ Finish(p)

SpecBump == InitBump /\ [][NextBump]_vars

(***************************************************************************)
(* Plain runs only: every run is started without --step, --from,           *)
(* --rollback or --status, with or without --dry-run and --yes.            *)
(***************************************************************************)
StartPlain(p) == Quiet /\ \E a \in { b \in ArgsOf(p) : b.mode = "resume" } : Begin(p, a)

NextPlain ==
  \/ \E p \in Procs :
       \/ StartPlain(p)
       \/ Lock203(p) \/ Lock204(p) \/ Lock205(p) \/ Lock210(p) \/ Lock213(p)
       \/ Lock214(p)
       \/ Resume(p)
       \/ RunStep(p) \/ Finish(p)
       \/ Interrupt(p) \/ Kill(p)
  \/ \E step \in DrySteps : Drift(step)

SpecPlain == Init /\ [][NextPlain]_vars

(***************************************************************************)
(* The release on the host.  package.json has a repository.url or has      *)
(* none; runs call single steps around gh_release.                         *)
(***************************************************************************)
GhArgsOf(p) ==
  { a \in ArgsOf(p) : a.mode = "step" /\ a.step \in { "version", "gh_release", "cleanup" } }

InitGh ==
  /\ stateFile = NoState
  /\ lockFile = NoPid
  /\ ext \in { [r EXCEPT !.repo = u] :
                 r \in { FreshRepo, ReleasedRepo }, u \in { "", "owner/name" } }
  /\ proc = [ p \in Procs |-> IdleProc ]
  /\ drifts = 0
  /\ fail = NoFail
  /\ pending = ""
  /\ provisional = {}
  /\ reached = {}
  /\ text = NoText
  /\ written = [ key \in TextKeys |-> << >> ]

StartGh(p) == Quiet /\ \E a \in GhArgsOf(p) : Begin(p, a)

NextGh ==
  \E p \in Procs :
    \/ StartGh(p)
    \/ Lock203(p) \/ Lock213(p) \/ Lock214(p)
    \/ RunOne(p)
    \/ RunStep(p) \/ Finish(p)

SpecGh == InitGh /\ [][NextGh]_vars

(***************************************************************************)
(* The state store as text: any sequence of save_state calls, with         *)
(* clear_state between them.                                               *)
(***************************************************************************)
SaveText(key, value) ==
  /\ text' = save_state_text(text, key, value)
  /\ written' = [written EXCEPT ![key] = value]
  /\ UNCHANGED << stateFile, lockFile, ext, proc, drifts, fail, pending, provisional, reached >>

ClearText ==
  /\ text.exists
  /\ text' = NoText
  /\ written' = [ key \in TextKeys |-> << >> ]
  /\ UNCHANGED << stateFile, lockFile, ext, proc, drifts, fail, pending, provisional, reached >>

NextStore ==
  \/ \E key \in TextKeys, value \in TextValues : SaveText(key, value)
  \/ ClearText

SpecStore == Init /\ [][NextStore]_vars

(***************************************************************************)
(* Properties.                                                             *)
(***************************************************************************)
completed_steps == get_state(stateFile, "completed_steps")
last_step == get_state(stateFile, "last_step")
IndexOf(step) == get_step_index(step)
\* process p made a step of its own that was not the delivery of a signal
Stepped(p) ==
  /\ proc'[p] # proc[p]
  /\ proc[p].pc \notin {"idle", "gone"}
  /\ proc'[p].kind \notin {"signal", "kill"}

C2_NoDuplicates ==
  \A i, j \in DOMAIN completed_steps :
    i # j => completed_steps[i] # completed_steps[j]

\* C3: at most one run is past acquire_lock (dispatching or executing steps).
C3_MutualExclusion ==
  Cardinality({ p \in Procs : /\ proc[p].pc \in {"dispatch", "steps"}
                              /\ proc[p].a.mode \notin {"rollback", "status"} }) <= 1

\* C4: the owner test of acquire_lock: when the lock file names a live run,
\* the acquiring run exits 1 with the state file and the lock file as they
\* were; when the named owner is not alive the run goes on to take the lock,
\* and the lock file then holds its pid.
C4_LockHeld ==
  [][ \A q \in Procs :
        /\ ( proc[q].pc = "l205" /\ Stepped(q) =>
               IF Alive(proc[q].rpid)
                 THEN /\ proc'[q].pc = "gone"
                      /\ proc'[q].code # 0
                      /\ proc'[q].msg = "Another release is in progress"
                      /\ stateFile' = stateFile
                      /\ lockFile' = lockFile
                 ELSE proc'[q].pc = "l210" )
        /\ ( proc[q].pc \in {"l210", "l213"} /\ Stepped(q) =>
               \/ proc'[q].pc = "l213"
               \/ proc'[q].pc = "l214" /\ lockFile' = q ) ]_vars

\* C4, its case: a run was refused while the live owner named in the lock
\* file goes on.
C4_Witness ==
  \E q, o \in Procs :
    /\ proc[q].pc = "gone" /\ proc[q].msg = "Another release is in progress"
    /\ lockFile = o /\ proc[o].pc = "steps"

\* C5: once a run that wrote the lock file has ended by exit or by an
\* interrupt signal, the lock file does not hold its pid any more.
C5_LockReleased ==
  \A p \in Procs :
    proc[p].pc = "gone" /\ proc[p].acquired /\ proc[p].kind \in {"exit", "signal"}
      => lockFile # p

\* C6: a run that reads or writes the state file (from its dispatch on) holds
\* the lock.
C6_StateUnderLock ==
  \A p \in Procs : proc[p].pc \in {"dispatch", "steps"} => lockFile = p

\* C7: after step S failed with s0..sk run before it, and until S succeeds,
\* last_step stays sk, and a resume calls only steps after sk and runs (does
\* not skip) only S or later steps, none of s0..sk.
C7_ResumeIdempotent ==
  /\ [](fail # NoFail => last_step = fail.prior[Len(fail.prior)])
  /\ [][ \A p \in Procs :
           ( /\ fail # NoFail
             /\ proc[p].a.mode = "resume"
             /\ Len(proc'[p].visited) > Len(proc[p].visited) )
           => LET s == proc'[p].visited[Len(proc'[p].visited)]
              IN  /\ IndexOf(s) > IndexOf(fail.prior[Len(fail.prior)])
                  /\ ( Len(proc'[p].attempted) > Len(proc[p].attempted)
                         => /\ IndexOf(s) >= IndexOf(fail.step)
                            /\ s \notin Names(fail.prior) ) ]_vars

\* C7, its case (scenario B): npm_publish failed after git_commit, and a
\* resume has tried npm_publish again and nothing else.
C7_Witness ==
  /\ fail # NoFail
  /\ fail.step = "npm_publish"
  /\ fail.prior[Len(fail.prior)] = "git_commit"
  /\ \E p \in Procs : /\ proc[p].pc = "gone"
                      /\ proc[p].a.mode = "resume"
                      /\ proc[p].visited = << "npm_publish" >>
                      /\ proc[p].attempted = << "npm_publish" >>

\* C8: a plain resume that follows the undoing of a completed step's effect
\* runs that step again before it ends with success.
C8_DriftRepaired ==
  \A p \in Procs :
    ( /\ proc[p].pc = "gone" /\ proc[p].kind = "exit" /\ proc[p].code = 0
      /\ proc[p].a.mode = "resume"
      /\ proc[p].drifted # "" )
    => proc[p].drifted \in Names(proc[p].attempted)

\* C9: when a run that is not a dry run reports the release and clears the
\* state, no step marked done only under --dry-run is left without its real
\* effect.
C9_DryRunNotTrusted ==
  \A p \in Procs :
    proc[p].a.mode = "resume" /\ proc[p].msg = "Released" => proc[p].unbacked = {}

\* C10: resume without a state record does what run_from_step preflight
\* does; with one it calls the steps from index(last_step)+1 to the end, in
\* order; with that index past the last step it calls none, clears the
\* state and ends with success.
C10_Resume ==
  /\ [][ \A p \in Procs :
           ( proc[p].pc = "dispatch" /\ proc[p].a.mode = "resume" /\ Stepped(p) )
           => IF ~ has_state(stateFile)
                THEN /\ proc'[p] = run_from_step(proc[p], "preflight")
                     /\ proc'[p].todo = STEPS
                     /\ stateFile' = stateFile
                ELSE IF IndexOf(last_step) + 1 >= NSteps
                  THEN /\ proc'[p].todo = << >>
                       /\ proc'[p].pc = "steps"
                       /\ proc'[p].msg = "Release already complete"
                       /\ ~ has_state(stateFile')
                  ELSE /\ proc'[p].todo = SubSeq(STEPS, IndexOf(last_step) + 2, NSteps)
                       /\ proc'[p].pc = "steps"
                       /\ stateFile' = stateFile ]_vars
  /\ [](\A p \in Procs :
          proc[p].a.mode = "resume" /\ proc[p].pc = "steps"
            => /\ proc[p].visited \o proc[p].todo
                    = SubSeq(STEPS, NSteps + 1 - Len(proc[p].visited \o proc[p].todo), NSteps)
               /\ ( proc[p].msg = "Release already complete" => proc[p].visited = << >> ))
  /\ [][ \A p \in Procs :
           ( proc[p].a.mode = "resume" /\ proc[p].pc = "steps" /\ proc[p].todo = << >>
             /\ Stepped(p) )
           => proc'[p].code = 0 /\ proc'[p].kind = "exit" ]_vars

\* C10, its case: resume found last_step = cleanup, ran nothing, cleared the
\* state and ended.
C10_Witness ==
  \E p \in Procs :
    /\ proc[p].pc = "gone" /\ proc[p].code = 0
    /\ proc[p].msg = "Release already complete"
    /\ proc[p].visited = << >>
    /\ ~ has_state(stateFile)

\* C11, the table of the compensations by last_step, newest effect first
CompTable(ls) ==
  CASE ls = "gh_release" -> << "gh_release", "remote_tag", "git_commit" >>
    [] ls = "git_push" -> << "remote_tag", "git_commit" >>
    [] ls = "npm_publish" -> << "manual", "git_commit" >>
    [] ls \in {"git_commit", "version"} -> << "git_commit" >>
    [] ls \in {"create_changeset", "edit_changeset"} -> << "changeset" >>
    [] OTHER -> << >>

\* the earliest step a compensation belongs to, and the command it runs
CompStep(c) ==
  CASE c = "gh_release" -> "gh_release"
    [] c = "remote_tag" -> "git_push"
    [] c = "manual" -> "npm_publish"
    [] c = "git_commit" -> "version"
    [] c = "changeset" -> "create_changeset"

CompCmd(c) ==
  CASE c = "gh_release" -> {"gh release delete"}
    [] c = "remote_tag" -> {"delete remote tag"}
    [] c = "git_commit" -> {"git reset"}
    [] c = "changeset" -> {"rm changeset"}
    [] OTHER -> {}

\* the record holds what the compensation acts on
CompHasTarget(c) ==
  CASE c \in {"gh_release", "remote_tag"} -> get_state(stateFile, "tag") # ""
    [] c = "git_commit" -> get_state(stateFile, "original_commit") # ""
    [] c = "changeset" -> get_state(stateFile, "changeset_file") \in ext.csFiles
    [] OTHER -> TRUE

\* C11: a rollback on a state record goes through the compensations of the
\* table row of last_step, in the row's order, each one whose target the
\* record holds and no other; it runs no command but theirs, and none of them
\* belongs to a step after last_step.
C11_RollbackTable ==
  [][ \A p \in Procs :
        ( /\ proc[p].pc = "dispatch" /\ proc[p].a.mode = "rollback"
          /\ has_state(stateFile) /\ Stepped(p) )
        => /\ proc'[p].comps = SelectSeq(CompTable(last_step), CompHasTarget)
           /\ proc'[p].act \subseteq UNION { CompCmd(c) : c \in Names(proc'[p].comps) }
           /\ \A c \in Names(proc'[p].comps) :
                IndexOf(CompStep(c)) <= IndexOf(last_step) ]_vars

\* C11, its case (scenario D): rollback with last_step = git_push deleted the
\* remote tag, then reset to original_commit, then cleared the state; the
\* release on the host was not touched.
C11_Witness ==
  \E p \in Procs :
    /\ proc[p].pc = "gone" /\ proc[p].a.mode = "rollback"
    /\ proc[p].comps = << "remote_tag", "git_commit" >>
    /\ proc[p].act = {"delete remote tag", "git reset"}
    /\ proc[p].msg = "Rollback complete"
    /\ ~ has_state(stateFile)

\* the steps whose effect a destructive command of rollback takes back
CmdSteps(cmd) ==
  CASE cmd = "gh release delete" -> {"gh_release"}
    [] cmd = "delete remote tag" -> {"git_push"}
    [] cmd = "git reset" -> {"version", "git_commit"}
    [] cmd = "rm changeset" -> {"create_changeset"}
    [] OTHER -> {}

\* C12: every destructive command a rollback runs (release deletion, remote
\* tag deletion, hard reset, changeset file deletion) takes back a step whose
\* real action was performed: none is run for steps that were only marked
\* done (under --dry-run, or without acting).
C12_NoDestructionForUnreached ==
  [][ \A p \in Procs :
        ( proc[p].pc = "dispatch" /\ proc[p].a.mode = "rollback" /\ Stepped(p) )
        => \A cmd \in proc'[p].act : CmdSteps(cmd) \cap reached # {} ]_vars

\* C13: a rollback that finds a state record ends with the state store
\* cleared, whichever compensation failed and whether or not the run is a
\* dry run.
C13_RollbackClears ==
  [][ \A p \in Procs :
        ( /\ proc[p].pc = "dispatch" /\ proc[p].a.mode = "rollback"
          /\ has_state(stateFile) /\ Stepped(p) )
        => ~ has_state(stateFile') ]_vars

\* C14: under --dry-run, in every dispatch mode: no step and no compensation
\* runs an external mutating command and the world is left as it was; the
\* state record is not cleared (not by cleanup either); and the run fails
\* only in preflight or on an unknown step name, otherwise it calls every
\* step of its sequence, cleanup last, and exits 0.
C14_DryRunPurity ==
  /\ [](\A p \in Procs : proc[p].a.dry => proc[p].act = {})
  /\ [][ \A p \in Procs :
           ( proc[p].a.dry /\ Stepped(p) )
           => /\ ext' = ext
              /\ ( has_state(stateFile) => has_state(stateFile') ) ]_vars
  /\ [](\A p \in Procs :
          ( /\ proc[p].pc = "gone" /\ proc[p].a.dry /\ proc[p].kind = "exit"
            /\ proc[p].a.mode \in {"resume", "from", "step"} )
          => IF proc[p].code = 0
               THEN /\ proc[p].visited # << >>
                    /\ proc[p].a.mode # "step"
                         => proc[p].visited[Len(proc[p].visited)] = "cleanup"
                    /\ proc[p].a.mode = "step" => proc[p].visited = << proc[p].a.step >>
               ELSE \/ proc[p].visited = << >> /\ IndexOf(proc[p].a.step) = -1
                    \/ /\ proc[p].visited # << >>
                       /\ LET s == proc[p].visited[Len(proc[p].visited)]
                          IN  s = "preflight" \/ IndexOf(s) = -1)

\* C14, its case: a whole release under --dry-run went through the twelve
\* steps and exited 0; nothing was run, the world is untouched and the state
\* record is still there.
C14_Witness ==
  \E p \in Procs :
    /\ proc[p].pc = "gone" /\ proc[p].a.dry /\ proc[p].a.mode = "resume"
    /\ proc[p].code = 0 /\ proc[p].visited = STEPS /\ proc[p].attempted = STEPS
    /\ proc[p].act = {}
    /\ ext = FreshRepo
    /\ has_state(stateFile) /\ last_step = "gh_release"

\* C15: when the action of a step fails in a pipeline run after other steps
\* succeeded, the run ends there (no later step is called) with a non-zero
\* status, completed_steps and last_step are left as they were, the lock
\* file is removed, and the failure is reported with the name in last_step.
C15_StepFailure ==
  [][ \A p \in Procs :
        ( /\ proc[p].pc = "steps" /\ proc[p].a.mode \in {"resume", "from"}
          /\ proc[p].ok # << >>
          /\ proc'[p].pc = "gone" /\ proc'[p].kind = "exit" /\ proc'[p].code # 0
          /\ proc'[p].msg # "Aborted by user" )
        => /\ completed_steps' = completed_steps
           /\ last_step' = last_step
           /\ lockFile' = NoPid
           /\ proc'[p].msg = ERR_trap(stateFile) ]_vars

\* C16: `changeset publish` is run only in a run given --yes or one whose
\* operator typed y or Y at the prompt; any other reply ends the run with a
\* non-zero status, nothing published and npm_publish not marked done.
C16_PublishConfirmed ==
  /\ [](\A p \in Procs :
          "changeset publish" \in proc[p].act
            => proc[p].a.yes \/ proc[p].reply \in {"y", "Y"})
  /\ [][ \A p \in Procs :
           ( proc[p].reply = "" /\ proc'[p].reply \notin {"", "y", "Y"} )
           => /\ proc'[p].pc = "gone" /\ proc'[p].code # 0
              /\ ext' = ext
              /\ stateFile' = stateFile
              /\ "changeset publish" \notin proc'[p].act ]_vars

\* C16, its case: a run without --yes published after the operator typed y,
\* and npm_publish is marked done.
C16_Witness ==
  \E p \in Procs :
    /\ ~ proc[p].a.yes /\ proc[p].reply = "y"
    /\ "changeset publish" \in proc[p].act
    /\ last_step = "npm_publish"

\* C17: a run given --step or --from with a name that is not in STEPS
\* changes neither the state record nor the world, executes no step, and
\* ends with a non-zero status.
C17_UnknownStep ==
  /\ [][ \A p \in Procs :
           ( /\ proc[p].a.mode \in {"step", "from"}
             /\ proc[p].a.step \notin Names(STEPS)
             /\ Stepped(p) )
           => /\ stateFile' = stateFile
              /\ ext' = ext
              /\ proc'[p].act = {} /\ proc'[p].ok = << >>
              /\ proc'[p].attempted \in { << >>, << proc[p].a.step >> } ]_vars
  /\ [](\A p \in Procs :
          ( /\ proc[p].pc = "gone" /\ proc[p].kind = "exit"
            /\ proc[p].a.mode \in {"step", "from"}
            /\ proc[p].a.step \notin Names(STEPS) )
          => proc[p].code # 0 /\ proc[p].msg = "Unknown step")

\* C17, its case: --from with an unknown name ended with status 1 beside a
\* state record that an earlier run left at build.
C17_Witness ==
  \E p \in Procs :
    /\ proc[p].pc = "gone" /\ proc[p].a.mode = "from" /\ proc[p].a.step = "deploy"
    /\ proc[p].code = 1 /\ proc[p].msg = "Unknown step"
    /\ has_state(stateFile) /\ last_step = "build"

\* C18: when fatal conditions are unmet, preflight evaluates every check,
\* ends the run with a non-zero status reporting their number, and leaves
\* the state record as it was, preflight not marked done.
C18_PreflightFailure ==
  [][ \A p \in Procs :
        ( /\ proc[p].pc = "steps" /\ Stepped(p)
          /\ Len(proc'[p].visited) > Len(proc[p].visited)
          /\ proc'[p].visited[Len(proc'[p].visited)] = "preflight"
          /\ proc'[p].fatal # {} )
        => /\ proc'[p].pc = "gone" /\ proc'[p].code # 0
           /\ stateFile' = stateFile
           /\ ~ is_step_done(stateFile', "preflight")
           /\ proc'[p].checked = FatalChecks
           /\ proc'[p].msg = PreflightFailed[Cardinality(proc'[p].fatal)] ]_vars


\* C19: a write to the state store (setting a key, or marking a step done)
\* that is cut short by a signal leaves the record either as it was before
\* the write or as the whole write makes it: no key that had a value is
\* missing, and the record is not left between the two.
C19_CrashSafeWrites ==
  \A p \in Procs :
    (proc[p].pc = "gone" /\ proc[p].kind \in {"signal", "kill"} /\ proc[p].writes # << >>)
      => stateFile \in { proc[p].before, proc[p].after }

\* the keys that have a line in the state file
Keys(sf) == { sf.lines[i][1] : i \in DOMAIN sf.lines }

C21_MarkedStepsVerified ==
  [][ \A p \in Procs : \A s \in Names(STEPS) :
        ( /\ Stepped(p)
          /\ ~ proc[p].a.dry
          /\ completed_steps' = Append(completed_steps, s) )
        => Verify(s, stateFile', ext') ]_vars

\* C22: after any sequence of save_state calls the file has at most one
\* line per key and get_state of a key prints exactly the value last saved
\* for it, colons included; with no file it prints nothing for every key.
C22_StoreAlgebra ==
  \A key \in TextKeys :
    /\ Cardinality({ i \in DOMAIN text.lines : grep_key(text.lines[i], key) }) <= 1
    /\ get_state_text(text, key) = written[key]
    /\ ~ text.exists => get_state_text(text, key) = << >>

\* C22 witness: the three keys have a line each, one key's value holds two
\* colons and another's a colon after a letter
C22_Witness ==
  /\ Len(text.lines) = 3
  /\ written[<< "a", "t" >>] = << ":", ":" >>
  /\ written[<< "a" >>] = << "x", ":" >>
  /\ get_state_text(text, << "a", "t" >>) = << ":", ":" >>

\* process p ran the body of `step` (no skip) to its end in this move
Executed(p, step) ==
  /\ proc[p].pc = "steps"
  /\ proc[p].todo # << >>
  /\ Head(proc[p].todo) = step
  /\ proc'[p].ok = Append(proc[p].ok, step)

\* C23: when the run was given --patch, --minor or --major, the bump_type
\* that its init records, and the bump type its create_changeset writes
\* after that init, is the flag's value, whatever the commits and the
\* config file say; with --auto its init records what the classifier found.
C23_BumpFlagAuthoritative ==
  [][ \A p \in Procs :
        /\ ( Executed(p, "init") /\ proc[p].a.flag \in { "patch", "minor", "major" } )
           => get_state(stateFile', "bump_type") = proc[p].a.flag
        /\ ( /\ Executed(p, "create_changeset")
             /\ "init" \in Names(proc[p].ok)
             /\ proc[p].a.flag \in { "patch", "minor", "major" } )
           => proc'[p].changeset = proc[p].a.flag
        /\ ( Executed(p, "init") /\ proc[p].a.flag = "auto" )
           => get_state(stateFile', "bump_type") = detect_bump_type(ext.subjects) ]_vars

\* C24: the classifier answers major when some subject in range carries
\* the breaking-change marker, else minor when some subject carries the
\* feature marker, else patch, wherever in the history those subjects are;
\* the one subject "feat: add export" gives minor.
C24_Classifier ==
  [][ \A p \in Procs :
        Executed(p, "init") =>
          LET commits == ext.subjects
              breaking == \E i \in DOMAIN commits : BreakingMarker(commits[i])
              feature == \E i \in DOMAIN commits : FeatureMarker(commits[i])
          IN  /\ breaking => proc'[p].detected = "major"
              /\ (~ breaking /\ feature) => proc'[p].detected = "minor"
              /\ (~ breaking /\ ~ feature) => proc'[p].detected = "patch"
              /\ commits = << << "feat", ":", "add export" >> >>
                   => proc'[p].detected = "minor"
              /\ proc[p].a.bump = "auto"
                   => get_state(stateFile', "bump_type") = proc'[p].detected ]_vars

\* C24 witness: --auto on a history whose first subject is a feature and
\* whose second is a breaking change: major was found and recorded
C24_Witness ==
  \E p \in Procs :
    /\ proc[p].a.flag = "auto"
    /\ proc[p].a.bump = "auto"
    /\ ext.subjects = << << "feat", ":", "add export" >>,
                         << "feat", "!", ":", "drop api" >> >>
    /\ proc[p].detected = "major"
    /\ "init" \in Names(proc[p].ok)
    /\ get_state(stateFile, "bump_type") = "major"

\* process p called the next step of its list and the step logged a skip
Skipped(p, step) ==
  /\ proc[p].pc = "steps"
  /\ proc[p].todo # << >>
  /\ Head(proc[p].todo) = step
  /\ proc'[p].visited = Append(proc[p].visited, step)
  /\ proc'[p].attempted = proc[p].attempted
  /\ proc'[p].pc # "gone"

\* C25: a step that is in completed_steps and whose verification passes is
\* skipped with a log line only: no external command runs, the world is
\* as before, and every key of the state record has the value it had.
C25_SkipIsLogOnly ==
  [][ \A p \in Procs : \A s \in Names(STEPS) :
        Skipped(p, s) =>
          /\ proc'[p].act = proc[p].act
          /\ ext' = ext
          /\ \A key \in Keys(stateFile) \cup Keys(stateFile') :
               get_state(stateFile', key) = get_state(stateFile, key) ]_vars

\* C26: when a run started with --step preflight or --from preflight calls
\* preflight, the checks are evaluated again, whether or not preflight is
\* in completed_steps: the call is never a skip.
C26_PreflightReExecutes ==
  [][ \A p \in Procs :
        ( /\ proc[p].a.mode \in { "step", "from" }
          /\ proc[p].a.step = "preflight"
          /\ proc[p].pc = "steps"
          /\ proc[p].todo # << >>
          /\ Head(proc[p].todo) = "preflight"
          /\ proc'[p].visited = Append(proc[p].visited, "preflight") )
        => /\ proc'[p].attempted = Append(proc[p].attempted, "preflight")
           /\ proc'[p].checked # << >> ]_vars

\* the external command that is the action of a step
ActionOf(step) ==
  CASE step = "create_changeset" -> {"create changeset"}
    [] step = "edit_changeset" -> {"editor"}
    [] step = "build" -> {"pnpm build"}
    [] step = "version" -> {"changeset version"}
    [] step = "git_commit" -> {"git commit"}
    [] step = "npm_publish" -> {"changeset publish"}
    [] step = "git_push" -> {"git push"}
    [] step = "gh_release" -> {"gh release create"}
    [] OTHER -> {}

IsPrefix(s, t) == Len(s) <= Len(t) /\ s = SubSeq(t, 1, Len(s))

\* C27: a run started with --step name calls the named step alone: it runs
\* no other step's action and marks no other step done.  A run started with
\* --from name calls the named step and then the following steps in the
\* order of the pipeline, all of them when it ends with status 0, and never
\* a step that comes before the named one.
C27_StepAndFrom ==
  /\ [](\A p \in Procs :
          /\ proc[p].a.mode = "step"
             => /\ IsPrefix(proc[p].visited, << proc[p].a.step >>)
                /\ proc[p].act \subseteq ActionOf(proc[p].a.step)
          /\ (proc[p].a.mode = "from" /\ proc[p].a.step \in Names(STEPS))
             => LET following == SubSeq(STEPS, IndexOf(proc[p].a.step) + 1, NSteps)
                IN  /\ IsPrefix(proc[p].visited, following)
                    /\ proc[p].act \subseteq UNION { ActionOf(s) : s \in Names(following) }
                    /\ (proc[p].pc = "gone" /\ proc[p].kind = "exit" /\ proc[p].code = 0)
                       => proc[p].visited = following)
  /\ [][ \A p \in Procs :
           (Stepped(p) /\ proc[p].a.mode = "step")
           => \A s \in Names(STEPS) \ { proc[p].a.step } :
                is_step_done(stateFile', s) => is_step_done(stateFile, s) ]_vars

\* C27 witness: a run with --from build went through build, version,
\* git_commit, npm_publish, git_push, gh_release and cleanup, ran their
\* commands, and ended with status 0
C27_Witness ==
  \E p \in Procs :
    /\ proc[p].a.mode = "from" /\ proc[p].a.step = "build" /\ ~ proc[p].a.dry
    /\ proc[p].pc = "gone" /\ proc[p].code = 0
    /\ proc[p].visited = SubSeq(STEPS, 6, NSteps)
    /\ { "pnpm build", "git push" } \subseteq proc[p].act

\* C28: a run started with --step gh_release where package.json has no
\* repository URL logs the warning, has gh_release marked done, sends no
\* command to the release host, neither to create nor to look up a release,
\* and ends with status 0, whatever the state it starts from.
C28_NoRepositoryUrl ==
  /\ [][ \A p \in Procs :
           ( /\ proc[p].a.mode = "step" /\ proc[p].a.step = "gh_release"
             /\ get_repo(ext) = ""
             /\ proc[p].pc = "steps"
             /\ proc[p].visited = << >>
             /\ proc'[p].visited = << "gh_release" >> )
           => /\ proc'[p].msg = "Skipping GitHub release (no repository.url)"
              /\ is_step_done(stateFile', "gh_release")
              /\ proc'[p].host = {}
              /\ proc'[p].pc # "gone" ]_vars
  /\ [](\A p \in Procs :
          ( /\ proc[p].a.mode = "step" /\ proc[p].a.step = "gh_release"
            /\ get_repo(ext) = ""
            /\ proc[p].pc = "gone" )
          => proc[p].code = 0)

\* C29: when every run is a plain one and each step completes or fails as
\* a whole, completed_steps is always a beginning of the pipeline, without
\* a repeated name, and last_step is its last element (both are empty when
\* there is no record or nothing is completed).
C29_PrefixOfPipeline ==
  /\ IsPrefix(completed_steps, STEPS)
  /\ \A i, j \in DOMAIN completed_steps :
       completed_steps[i] = completed_steps[j] => i = j
  /\ IF completed_steps = << >>
       THEN last_step = ""
       ELSE last_step = completed_steps[Len(completed_steps)]

\* C29 witness: a second plain run, real, took up a release that an earlier
\* run had left part-way and brought the record to gh_release
C29_Witness ==
  \E p \in Procs :
    /\ p > 1
    /\ proc[p].a.mode = "resume" /\ ~ proc[p].a.dry
    /\ proc[p].visited # << >>
    /\ proc[p].visited[1] \notin { "preflight", "cleanup" }
    /\ completed_steps = SubSeq(STEPS, 1, NSteps - 1)
    /\ last_step = "gh_release"

\* C30: a step that is not in completed_steps is never skipped, whatever
\* its verification predicate would answer, and the verification command
\* of gh_release is not run for it; a real npm_publish that is not marked
\* done and does not end the run there has run the publish command, also
\* when an earlier run died after publishing the same version.
C30_VerifyOnlyWhenMarked ==
  [][ \A p \in Procs : \A s \in Names(STEPS) :
        ( /\ proc[p].pc = "steps"
          /\ proc[p].todo # << >>
          /\ Head(proc[p].todo) = s
          /\ proc'[p].visited = Append(proc[p].visited, s)
          /\ s \notin Names(completed_steps) )
        => /\ proc'[p].attempted = Append(proc[p].attempted, s)
           /\ "gh release view" \in proc'[p].host => "gh release view" \in proc[p].host
           /\ ( /\ s = "npm_publish"
                /\ ~ proc[p].a.dry
                /\ ~ (proc'[p].pc = "gone" /\ proc'[p].kind = "exit") )
              => "changeset publish" \in proc'[p].act ]_vars

\* C30 witness: a plain run that began at npm_publish published again a
\* version that an earlier run had published before it died unmarked
C30_Witness ==
  \E p \in Procs :
    /\ proc[p].a.mode = "resume" /\ ~ proc[p].a.dry
    /\ proc[p].visited # << >> /\ proc[p].visited[1] = "npm_publish"
    /\ "npm_publish" \in proc[p].again
    /\ "changeset publish" \in proc[p].act
    /\ get_state(stateFile, "version") \in ext.npm

\* the values of last_step that have a compensation chain in rollback
Compensated ==
  { "gh_release", "git_push", "npm_publish", "git_commit", "version",
    "create_changeset", "edit_changeset" }

\* C31: a rollback that finds last_step among preflight, init, show_commits
\* and build, or absent, or a name rollback does not know, applies no
\* compensation and runs no command, leaves the world as it is (with
\* last_step = build the changeset file stays on disk), and still ends with
\* the state cleared.
C31_EarlyRollback ==
  [][ \A p \in Procs :
        ( /\ proc[p].pc = "dispatch" /\ proc[p].a.mode = "rollback"
          /\ last_step \notin Compensated /\ Stepped(p) )
        => /\ proc'[p].comps = << >>
           /\ proc'[p].act = {}
           /\ ext' = ext
           /\ ~ has_state(stateFile') ]_vars

\* C32: step_cleanup never records itself: in every reachable state cleanup
\* is neither last_step nor an element of completed_steps, so no run of
\* resume takes the "Release already complete" branch; and a run outside
\* --dry-run whose cleanup step succeeded leaves no state record, at the step
\* and when the run ends.
C32_CleanupNeverRecorded ==
  /\ [](last_step # "cleanup" /\ "cleanup" \notin Names(completed_steps))
  /\ [](\A p \in Procs : proc[p].msg # "Release already complete")
  /\ [][ \A p \in Procs :
           ( /\ Stepped(p) /\ ~ proc[p].a.dry
             /\ proc[p].pc = "steps" /\ proc[p].todo # << >>
             /\ Head(proc[p].todo) = "cleanup"
             /\ proc'[p].ok = Append(proc[p].ok, "cleanup") )
           => ~ has_state(stateFile') ]_vars
  /\ [][ \A p \in Procs :
           ( /\ Stepped(p) /\ ~ proc[p].a.dry
             /\ proc'[p].pc = "gone" /\ proc'[p].code = 0
             /\ "cleanup" \in Names(proc'[p].ok) )
           => ~ has_state(stateFile') ]_vars

\* C32 witness: a record with last_step = gh_release, the last name a step
\* ever records; a run outside --dry-run resumed from it, ran cleanup alone
\* and reported the release, and the record is gone.
C32_Witness ==
  \E q \in Procs :
    /\ proc[q].pc = "gone" /\ ~ proc[q].a.dry /\ proc[q].a.mode = "resume"
    /\ proc[q].visited = << "cleanup" >>
    /\ proc[q].ok = << "cleanup" >>
    /\ proc[q].msg = "Released"
    /\ proc[q].code = 0
    /\ ~ has_state(stateFile)

====
